---- MODULE Spec2Model ----
(***************************************************************************)
(* One run of the dashboard script src/dashboard.py, top to bottom:         *)
(* credential resolution, the sidebar's keyword input, the credential      *)
(* gate, the trigger button, the three families of API calls and the four  *)
(* tabs.  HTTP responses, the environment and the user's input are the     *)
(* nondeterministic inputs.                                                 *)
(***************************************************************************)
EXTENDS Integers, Sequences, FiniteSets, TLC

VARIABLES
    pc,             \* position of the script
    CLIENT_ID,      \* module globals, line 32
    CLIENT_SECRET,
    source_absent,  \* history: some credential had no source at all (env, then secrets)
    keyword_input,  \* the sidebar's text input, a sequence of characters
    keywords,       \* line 91
    i,              \* index of the running comprehension (lines 102, 103)
    requests,       \* history: the HTTP requests issued, in order
    response,       \* the HTTP response being handled (lines 56, 79)
    last_status,    \* history: status of the response handled last, 0 before any
    trend_df,       \* line 101
    blog_dfs,       \* line 102, an insertion-ordered dict
    shop_dfs,       \* line 103, an insertion-ordered dict
    all_shop_data,  \* line 151
    combined_shop,  \* line 160
    pivot_trend,    \* line 119
    tfidf_calls,    \* history: the fit_transform calls of line 178
    display,        \* history: what the page shows, in order
    exc             \* the exception that ended the run and where, or NoException

vars == <<pc, CLIENT_ID, CLIENT_SECRET, source_absent, keyword_input, keywords, i,
          requests, response, last_status, trend_df, blog_dfs, shop_dfs,
          all_shop_data, combined_shop, pivot_trend, tfidf_calls, display, exc>>

---------------------------------------------------------------------------
(* Bounds of the model. *)

\* items of one search response
MaxItems == 1
\* periods of each group of one trend response
MaxPeriods == 2

---------------------------------------------------------------------------
(* Python values.  A cell of a table is None, a string, a number or NaN.   *)

None == [t |-> "none"]
Str(s) == [t |-> "str", s |-> s]
Num(n) == [t |-> "num", n |-> n]
NaN == [t |-> "nan"]

\* Python truthiness of an optional string (None and "" are falsy)
Truthy(c) == c.t = "str" /\ c.s # ""

\* sequences over S of length at most n
SeqsUpTo(S, n) == UNION {[1..k -> S] : k \in 0..n}

\* a function result: a value, or an exception raised
Ok(v) == [ok |-> TRUE, value |-> v]
Raise(e) == [ok |-> FALSE, exc |-> e]

\* pd.DataFrame(): no rows
EmptyDataFrame == <<>>

\* faulty variant of IsEmpty: the test inverted
IsEmptyNegated(df) == Len(df) # 0

\* DataFrame.empty
IsEmpty(df) == Len(df) = 0

---------------------------------------------------------------------------
(* Insertion-ordered dict: a sequence of <<key, value>> with distinct keys *)

RECURSIVE DictHas(_, _)
DictHas(d, k) ==
    IF d = <<>> THEN FALSE
    ELSE IF Head(d)[1] = k THEN TRUE ELSE DictHas(Tail(d), k)

RECURSIVE DictGet(_, _, _)
DictGet(d, k, default) ==
    IF d = <<>> THEN default
    ELSE IF Head(d)[1] = k THEN Head(d)[2] ELSE DictGet(Tail(d), k, default)

\* d[k] = v: a new key goes last, an old key keeps its place and takes the new value
DictSet(d, k, v) ==
    IF DictHas(d, k)
    THEN [n \in 1..Len(d) |-> IF d[n][1] = k THEN <<k, v>> ELSE d[n]]
    ELSE Append(d, <<k, v>>)

DictKeys(d) == [n \in 1..Len(d) |-> d[n][1]]

---------------------------------------------------------------------------
(* Credentials, lines 14-32 *)

EnvValues == {None, Str("key")}
Environments == [NAVER_CLIENT_ID : EnvValues, NAVER_CLIENT_SECRET : EnvValues]

SecretNames == {"NAVER_CLIENT_ID", "NAVER_CLIENT_SECRET"}
SecretValues == {Str(""), Str("key")}
\* the secret store: no secrets file at all (every access raises), or a mapping
SecretStores ==
    {[available |-> FALSE, map |-> <<>>]} \cup
    {[available |-> TRUE, map |-> m] :
        m \in UNION {[D -> SecretValues] : D \in SUBSET SecretNames}}

get_naver_credentials(env, secrets) ==
    IF Truthy(env.NAVER_CLIENT_ID) /\ Truthy(env.NAVER_CLIENT_SECRET)
    THEN <<env.NAVER_CLIENT_ID, env.NAVER_CLIENT_SECRET>>
    ELSE IF ~secrets.available
    THEN <<None, None>>                      \* the access raises, line 26 swallows it
    ELSE IF "NAVER_CLIENT_ID" \in DOMAIN secrets.map
    THEN IF "NAVER_CLIENT_SECRET" \in DOMAIN secrets.map
         THEN <<secrets.map["NAVER_CLIENT_ID"], secrets.map["NAVER_CLIENT_SECRET"]>>
         ELSE <<None, None>>                 \* KeyError, line 26 swallows it
    ELSE <<None, None>>

\* a credential that neither the environment nor the secret store supplies
NoSource(env, secrets, name) ==
    /\ ~Truthy(env[name])
    /\ \/ ~secrets.available
       \/ name \notin DOMAIN secrets.map
       \/ ~Truthy(secrets.map[name])

---------------------------------------------------------------------------
(* The keyword input, lines 90-91 *)

Whitespace == {" "}

\* the text inputs tried: "a,b"  "a, a"  " b ,,"  "a b"  ""
KeywordInputs ==
    { <<"a", ",", "b">>,
      <<"a", ",", " ", "a">>,
      <<" ", "b", " ", ",", ",">>,
      <<"a", " ", "b">>,
      <<>> }

\* str.split(","): the pieces between the commas, empty pieces included
RECURSIVE split(_, _)
split(s, cur) ==
    IF s = <<>> THEN <<cur>>
    ELSE IF Head(s) = "," THEN <<cur>> \o split(Tail(s), <<>>)
    ELSE split(Tail(s), Append(cur, Head(s)))

RECURSIVE lstrip(_)
lstrip(s) ==
    IF s # <<>> /\ Head(s) \in Whitespace THEN lstrip(Tail(s)) ELSE s

RECURSIVE rstrip(_)
rstrip(s) ==
    IF s # <<>> /\ s[Len(s)] \in Whitespace THEN rstrip(SubSeq(s, 1, Len(s) - 1)) ELSE s

\* str.strip()
strip(s) == rstrip(lstrip(s))

RECURSIVE StripNonEmpty(_)
StripNonEmpty(parts) ==
    IF parts = <<>> THEN <<>>
    ELSE IF strip(Head(parts)) # <<>>
         THEN <<strip(Head(parts))>> \o StripNonEmpty(Tail(parts))
         ELSE StripNonEmpty(Tail(parts))

\* line 91: [k.strip() for k in keyword_input.split(",") if k.strip()]
parse_keywords(input) == StripNonEmpty(split(input, <<>>))

---------------------------------------------------------------------------
(* HTTP responses *)

Statuses == {200, 401, 500}

NotJson == [kind |-> "notjson"]
Json(obj) == [kind |-> "json", obj |-> obj]

BlogRecords ==
    { [title |-> Str(<<"omega">>), description |-> None],
      [title |-> None, description |-> None] }

ShopRecords ==
    { [lprice |-> Str(<<"1", "2">>), mallName |-> Str(<<"M">>)],
      [lprice |-> Str(<<"7">>), mallName |-> Str(<<"N">>)],
      [lprice |-> Str(<<"N", "/", "A">>), mallName |-> Str(<<"M">>)] }

RecordsOf(api_type) == IF api_type = "blog" THEN BlogRecords ELSE ShopRecords

\* bodies of a search response: not JSON, JSON without 'items', JSON with items
SearchBodies(api_type) ==
    {NotJson, Json([errorMessage |-> "error"])} \cup
    {Json([items |-> its]) : its \in SeqsUpTo(RecordsOf(api_type), MaxItems)}

SearchResponses(api_type) == [status : Statuses, body : SearchBodies(api_type)]

Periods == {"2024-01", "2024-02"}

\* the provider answers one group per requested group, titled by its groupName,
\* each with the same periods; ratio tells the records apart
TrendGroups(kws, periods) ==
    [g \in 1..Len(kws) |->
        [title |-> kws[g],
         data |-> [p \in 1..Len(periods) |->
                      [period |-> periods[p], ratio |-> 10 * g + p]]]]

TrendBodies(kws) ==
    {NotJson, Json([errorMessage |-> "error"])} \cup
    {Json([results |-> TrendGroups(kws, ps)]) : ps \in SeqsUpTo(Periods, MaxPeriods)}

TrendResponses(kws) == [status : Statuses, body : TrendBodies(kws)]

---------------------------------------------------------------------------
(* API calls, lines 35-82 *)

\* lines 62-67, the entries of one group
RECURSIVE GroupRows(_, _)
GroupRows(group_name, data) ==
    IF data = <<>> THEN <<>>
    ELSE <<[period |-> Head(data).period, ratio |-> Head(data).ratio,
            keyword |-> group_name]>> \o GroupRows(group_name, Tail(data))

\* lines 59-67
RECURSIVE TrendRows(_)
TrendRows(groups) ==
    IF groups = <<>> THEN <<>>
    ELSE GroupRows(Head(groups).title, Head(groups).data) \o TrendRows(Tail(groups))

\* faulty variant of fetch_shopping_trend: only the first group is read
fetch_shopping_trend_first_group(resp) ==
    IF resp.status = 200
    THEN IF resp.body.kind = "notjson" THEN Raise("JSONDecodeError")
         ELSE IF "results" \notin DOMAIN resp.body.obj THEN Raise("KeyError")
         ELSE IF resp.body.obj.results = <<>> THEN Ok(EmptyDataFrame)
         ELSE Ok(GroupRows(Head(resp.body.obj.results).title,
                           Head(resp.body.obj.results).data))
    ELSE Ok(EmptyDataFrame)

\* lines 56-69
fetch_shopping_trend(resp) ==
    IF resp.status = 200
    THEN IF resp.body.kind = "notjson" THEN Raise("JSONDecodeError")
         ELSE IF "results" \notin DOMAIN resp.body.obj THEN Raise("KeyError")
         ELSE Ok(TrendRows(resp.body.obj.results))
    ELSE Ok(EmptyDataFrame)

\* faulty variant of fetch_search_results: the status is not looked at
fetch_search_results_any_status(resp) ==
    IF resp.body.kind = "notjson" THEN Raise("JSONDecodeError")
    ELSE IF "items" \notin DOMAIN resp.body.obj THEN Raise("KeyError")
    ELSE Ok(resp.body.obj.items)

\* lines 79-82
fetch_search_results(resp) ==
    IF resp.status = 200
    THEN IF resp.body.kind = "notjson" THEN Raise("JSONDecodeError")
         ELSE IF "items" \notin DOMAIN resp.body.obj THEN Raise("KeyError")
         ELSE Ok(resp.body.obj.items)
    ELSE Ok(EmptyDataFrame)

---------------------------------------------------------------------------
(* What the page shows: one event per st.* call that matters *)

NoKeyword == <<>>
NoData == <<>>
Event(kind, what, kw, data) == [kind |-> kind, what |-> what, kw |-> kw, data |-> data]

NoException == [type |-> "none", at |-> "none"]
NoResponse == [status |-> 0, body |-> NotJson]

---------------------------------------------------------------------------
(* Price coercion, lines 138 and 156 *)

DigitChars == {"0", "1", "2", "3", "4", "5", "6", "7", "8", "9"}

DigitValue(c) ==
    CASE c = "0" -> 0 [] c = "1" -> 1 [] c = "2" -> 2 [] c = "3" -> 3 [] c = "4" -> 4
      [] c = "5" -> 5 [] c = "6" -> 6 [] c = "7" -> 7 [] c = "8" -> 8 [] c = "9" -> 9

RECURSIVE ParseDigits(_, _)
ParseDigits(s, acc) ==
    IF s = <<>> THEN acc ELSE ParseDigits(Tail(s), 10 * acc + DigitValue(Head(s)))

\* pd.to_numeric(..., errors='coerce') of one cell
to_numeric(c) ==
    IF c.t = "num" \/ c.t = "nan" THEN c
    ELSE IF c.t = "none" THEN NaN
    ELSE IF c.s # <<>> /\ \A k \in DOMAIN c.s : c.s[k] \in DigitChars
         THEN Num(ParseDigits(c.s, 0))
         ELSE NaN

\* df['lprice'] = pd.to_numeric(df['lprice'], errors='coerce')
CoerceLprice(df) == [n \in DOMAIN df |-> [df[n] EXCEPT !.lprice = to_numeric(@)]]

---------------------------------------------------------------------------
(* Tab 1, lines 109-126 *)

PairOf(row) == <<row.period, row.keyword>>
Pairs(df) == {PairOf(df[n]) : n \in DOMAIN df}
HasDuplicatePairs(df) == \E m, n \in DOMAIN df : m # n /\ PairOf(df[m]) = PairOf(df[n])

\* line 119: DataFrame.pivot raises ValueError on a duplicate (index, column) pair;
\* the table has a cell for each pair present, every other combination is NaN
pivot(df) ==
    IF HasDuplicatePairs(df) THEN Raise("ValueError")
    ELSE Ok([pr \in Pairs(df) |-> df[CHOOSE n \in DOMAIN df : PairOf(df[n]) = pr].ratio])

---------------------------------------------------------------------------
(* Tab 2, lines 129-144 *)

\* lines 135-144, one keyword; shop_df is the object held by shop_dfs, so the
\* assignment of line 138 changes shop_dfs[kw]
EdaStep(kw, st) ==
    LET shop_df == DictGet(st.dfs, kw, EmptyDataFrame)
        d1 == Append(st.disp, Event("subheader", "eda", kw, NoData))
    IN  IF ~IsEmpty(shop_df)
        THEN [dfs |-> DictSet(st.dfs, kw, CoerceLprice(shop_df)),
              disp |-> d1 \o <<Event("dataframe", "price_describe", kw, NoData),
                               Event("table", "top_malls", kw, NoData)>>]
        ELSE [dfs |-> st.dfs, disp |-> d1]

\* line 133
RECURSIVE EdaLoop(_, _)
EdaLoop(kws, st) ==
    IF kws = <<>> THEN st ELSE EdaLoop(Tail(kws), EdaStep(Head(kws), st))

---------------------------------------------------------------------------
(* Tab 3, lines 147-190 *)

\* faulty variant of TaggedCopy: rows whose price is not a number are dropped
TaggedCopyDropNaN(kw, df) ==
    SelectSeq([n \in DOMAIN df |->
                  [lprice |-> to_numeric(df[n].lprice), mallName |-> df[n].mallName,
                   keyword |-> kw]],
              LAMBDA r : r.lprice.t = "num")

\* lines 154-156
TaggedCopy(kw, df) ==
    [n \in DOMAIN df |->
        [lprice |-> to_numeric(df[n].lprice), mallName |-> df[n].mallName,
         keyword |-> kw]]

\* lines 151-157 over shop_dfs.items()
RECURSIVE CollectShop(_)
CollectShop(items) ==
    IF items = <<>> THEN <<>>
    ELSE (IF ~IsEmpty(Head(items)[2])
          THEN <<TaggedCopy(Head(items)[1], Head(items)[2])>>
          ELSE <<>>) \o CollectShop(Tail(items))

\* line 160, pd.concat
RECURSIVE concat(_)
concat(frames) ==
    IF frames = <<>> THEN <<>> ELSE Head(frames) \o concat(Tail(frames))

max_features == 20

\* Series.fillna('')
fillna(c) == IF c.t = "none" \/ c.t = "nan" THEN Str(<<>>) ELSE c

\* line 177; a text is its sequence of tokens, and joining two texts with " "
\* gives the tokens of the first followed by the tokens of the second
Corpus(b_df) ==
    [n \in DOMAIN b_df |-> fillna(b_df[n].title).s \o fillna(b_df[n].description).s]

Vocabulary(corpus) ==
    UNION {{corpus[n][k] : k \in DOMAIN corpus[n]} : n \in DOMAIN corpus}

RECURSIVE TermCount(_, _)
TermCount(corpus, w) ==
    IF corpus = <<>> THEN 0
    ELSE Cardinality({k \in DOMAIN Head(corpus) : Head(corpus)[k] = w})
         + TermCount(Tail(corpus), w)

\* line 178: TfidfVectorizer(max_features=20).fit_transform raises ValueError on an
\* empty vocabulary, and keeps the max_features most frequent terms otherwise
fit_transform(corpus) ==
    LET V == Vocabulary(corpus)
    IN  IF V = {} THEN Raise("ValueError")
        ELSE IF Cardinality(V) <= max_features THEN Ok(V)
        ELSE Ok(CHOOSE T \in SUBSET V :
                    /\ Cardinality(T) = max_features
                    /\ \A a \in T, b \in V \ T :
                          TermCount(corpus, a) >= TermCount(corpus, b))

\* lines 174-183, one keyword
TfidfStep(kw, dfs, st) ==
    LET b_df == DictGet(dfs, kw, EmptyDataFrame)
    IN  IF st.exc # "none" \/ IsEmpty(b_df) THEN st
        ELSE LET corpus == Corpus(b_df)
                 r == fit_transform(corpus)
             IN  IF r.ok
                 THEN [calls |-> Append(st.calls,
                                    [keyword |-> kw, corpus |-> corpus, terms |-> r.value]),
                       disp |-> Append(st.disp, Event("chart", "tfidf", kw, NoData)),
                       exc |-> "none"]
                 ELSE [calls |-> Append(st.calls,
                                    [keyword |-> kw, corpus |-> corpus, terms |-> {}]),
                       disp |-> st.disp,
                       exc |-> r.exc]

\* line 173
RECURSIVE TfidfLoop(_, _, _)
TfidfLoop(kws, dfs, st) ==
    IF kws = <<>> THEN st ELSE TfidfLoop(Tail(kws), dfs, TfidfStep(Head(kws), dfs, st))

---------------------------------------------------------------------------
(* Tab 4, lines 193-207 *)

bins == 5

FinitePrices(df) == {df[n].lprice.n : n \in {m \in DOMAIN df : df[m].lprice.t = "num"}}
MinOf(S) == CHOOSE x \in S : \A y \in S : x <= y
MaxOf(S) == CHOOSE x \in S : \A y \in S : x >= y

\* the equal-width, right-closed bin of p among `bins` bins over [mn, mx]; a single
\* value is bracketed by widened edges and falls in the middle bin
PriceBin(p, mn, mx) ==
    IF mn = mx THEN (bins + 1) \div 2
    ELSE CHOOSE k \in 1..bins :
            /\ bins * (p - mn) <= k * (mx - mn)
            /\ \A j \in 1..(k - 1) : bins * (p - mn) > j * (mx - mn)

\* line 197: pd.cut(combined_shop['lprice'], bins=5); with no finite price the bin
\* edges are all NaN and pd.cut raises ValueError
cut(df) ==
    LET P == FinitePrices(df)
    IN  IF P = {} THEN Raise("ValueError")
        ELSE Ok([n \in DOMAIN df |->
                    [lprice |-> df[n].lprice, mallName |-> df[n].mallName,
                     keyword |-> df[n].keyword,
                     price_bin |-> IF df[n].lprice.t = "num"
                                   THEN Num(PriceBin(df[n].lprice.n, MinOf(P), MaxOf(P)))
                                   ELSE NaN]])

\* lines 202-207
RECURSIVE RawLoop(_, _, _)
RawLoop(kws, shops, blogs) ==
    IF kws = <<>> THEN <<>>
    ELSE <<Event("dataframe", "shop", Head(kws), DictGet(shops, Head(kws), EmptyDataFrame)),
           Event("dataframe", "blog", Head(kws), DictGet(blogs, Head(kws), EmptyDataFrame))>>
         \o RawLoop(Tail(kws), shops, blogs)

---------------------------------------------------------------------------
(* The script *)

Init ==
    /\ pc = "start"
    /\ CLIENT_ID = None
    /\ CLIENT_SECRET = None
    /\ source_absent = FALSE
    /\ keyword_input = <<>>
    /\ keywords = <<>>
    /\ i = 0
    /\ requests = <<>>
    /\ response = NoResponse
    /\ last_status = 0
    /\ trend_df = EmptyDataFrame
    /\ blog_dfs = <<>>
    /\ shop_dfs = <<>>
    /\ all_shop_data = <<>>
    /\ combined_shop = EmptyDataFrame
    /\ pivot_trend = <<>>
    /\ tfidf_calls = <<>>
    /\ display = <<>>
    /\ exc = NoException

\* line 32
LoadCredentials ==
    /\ pc = "start"
    /\ \E env \in Environments, secrets \in SecretStores :
          /\ CLIENT_ID' = get_naver_credentials(env, secrets)[1]
          /\ CLIENT_SECRET' = get_naver_credentials(env, secrets)[2]
          /\ source_absent' = \E name \in SecretNames : NoSource(env, secrets, name)
    /\ pc' = "sidebar"
    /\ UNCHANGED <<keyword_input, keywords, i, requests, response, last_status, trend_df,
                   blog_dfs, shop_dfs, all_shop_data, combined_shop, pivot_trend,
                   tfidf_calls, display, exc>>

\* lines 90-91
Sidebar ==
    /\ pc = "sidebar"
    /\ \E input \in KeywordInputs :
          /\ keyword_input' = input
          /\ keywords' = parse_keywords(input)
    /\ pc' = "gate"
    /\ UNCHANGED <<CLIENT_ID, CLIENT_SECRET, source_absent, i, requests, response,
                   last_status, trend_df, blog_dfs, shop_dfs, all_shop_data,
                   combined_shop, pivot_trend, tfidf_calls, display, exc>>

\* faulty variant of GateBlocks: `and` for `or`
GateBlocksWhenBothMissing(id, secret) == ~Truthy(id) /\ ~Truthy(secret)

\* line 93
GateBlocks(id, secret) == ~Truthy(id) \/ ~Truthy(secret)

\* lines 93-95: st.error, then st.stop ends the run
CredentialGate ==
    /\ pc = "gate"
    /\ IF GateBlocks(CLIENT_ID, CLIENT_SECRET)
       THEN /\ display' = Append(display, Event("error", "credentials", NoKeyword, NoData))
            /\ pc' = "stopped"
       ELSE /\ pc' = "button"
            /\ UNCHANGED display
    /\ UNCHANGED <<CLIENT_ID, CLIENT_SECRET, source_absent, keyword_input, keywords, i,
                   requests, response, last_status, trend_df, blog_dfs, shop_dfs,
                   all_shop_data, combined_shop, pivot_trend, tfidf_calls, exc>>

\* lines 98 and 209-210
Button ==
    /\ pc = "button"
    /\ \E clicked \in BOOLEAN :
          IF clicked
          THEN /\ pc' = "trend_request"
               /\ UNCHANGED display
          ELSE /\ pc' = "idle"
               /\ display' = Append(display, Event("info", "start", NoKeyword, NoData))
    /\ UNCHANGED <<CLIENT_ID, CLIENT_SECRET, source_absent, keyword_input, keywords, i,
                   requests, response, last_status, trend_df, blog_dfs, shop_dfs,
                   all_shop_data, combined_shop, pivot_trend, tfidf_calls, exc>>

TrendRequest(kws) == [endpoint |-> "trend", keyword |-> NoKeyword, groups |-> kws]
SearchRequest(api_type, kw) == [endpoint |-> api_type, keyword |-> kw, groups |-> <<>>]

\* lines 46-56: one POST whose body names every keyword
SendTrend ==
    /\ pc = "trend_request"
    /\ response' \in TrendResponses(keywords)
    /\ requests' = Append(requests, TrendRequest(keywords))
    /\ pc' = "trend_response"
    /\ UNCHANGED <<CLIENT_ID, CLIENT_SECRET, source_absent, keyword_input, keywords, i,
                   last_status, trend_df, blog_dfs, shop_dfs, all_shop_data,
                   combined_shop, pivot_trend, tfidf_calls, display, exc>>

\* lines 57-69 and the assignment of line 101
HandleTrend ==
    /\ pc = "trend_response"
    /\ LET r == fetch_shopping_trend(response)
       IN  IF r.ok
           THEN /\ trend_df' = r.value
                /\ pc' = IF keywords = <<>> THEN "tab_trend" ELSE "blog_request"
                /\ i' = 1
                /\ UNCHANGED exc
           ELSE /\ pc' = "crashed"
                /\ exc' = [type |-> r.exc, at |-> "fetch_shopping_trend"]
                /\ UNCHANGED <<trend_df, i>>
    /\ last_status' = response.status
    /\ response' = NoResponse
    /\ UNCHANGED <<CLIENT_ID, CLIENT_SECRET, source_absent, keyword_input, keywords,
                   requests, blog_dfs, shop_dfs, all_shop_data, combined_shop,
                   pivot_trend, tfidf_calls, display>>

RequestPc(api_type) == IF api_type = "blog" THEN "blog_request" ELSE "shop_request"
ResponsePc(api_type) == IF api_type = "blog" THEN "blog_response" ELSE "shop_response"

\* lines 72-79, for keywords[i] of the comprehension of line 102 or 103
SendSearch(api_type) ==
    /\ pc = RequestPc(api_type)
    /\ response' \in SearchResponses(api_type)
    /\ requests' = Append(requests, SearchRequest(api_type, keywords[i]))
    /\ pc' = ResponsePc(api_type)
    /\ UNCHANGED <<CLIENT_ID, CLIENT_SECRET, source_absent, keyword_input, keywords, i,
                   last_status, trend_df, blog_dfs, shop_dfs, all_shop_data,
                   combined_shop, pivot_trend, tfidf_calls, display, exc>>

\* lines 80-82 and the dict entry of line 102 or 103; when the call raises the
\* comprehension is abandoned and the partial dict is never read again
HandleSearch(api_type) ==
    /\ pc = ResponsePc(api_type)
    /\ LET r == fetch_search_results(response)
       IN  IF r.ok
           THEN /\ IF api_type = "blog"
                   THEN /\ blog_dfs' = DictSet(blog_dfs, keywords[i], r.value)
                        /\ UNCHANGED shop_dfs
                   ELSE /\ shop_dfs' = DictSet(shop_dfs, keywords[i], r.value)
                        /\ UNCHANGED blog_dfs
                /\ IF i < Len(keywords)
                   THEN /\ i' = i + 1
                        /\ pc' = RequestPc(api_type)
                   ELSE /\ i' = 1
                        /\ pc' = IF api_type = "blog" THEN "shop_request" ELSE "tab_trend"
                /\ UNCHANGED exc
           ELSE /\ pc' = "crashed"
                /\ exc' = [type |-> r.exc, at |-> "fetch_search_results"]
                /\ UNCHANGED <<blog_dfs, shop_dfs, i>>
    /\ last_status' = response.status
    /\ response' = NoResponse
    /\ UNCHANGED <<CLIENT_ID, CLIENT_SECRET, source_absent, keyword_input, keywords,
                   requests, trend_df, all_shop_data, combined_shop, pivot_trend,
                   tfidf_calls, display>>

\* lines 109-126
TabTrend ==
    /\ pc = "tab_trend"
    /\ IF ~IsEmpty(trend_df)
       THEN LET p == pivot(trend_df)
                chart == Event("chart", "trend", NoKeyword, NoData)
            IN  IF p.ok
                THEN /\ pivot_trend' = p.value
                     /\ display' = display \o
                            <<chart,
                              Event("dataframe", "pivot_trend", NoKeyword, NoData),
                              Event("dataframe", "trend_describe", NoKeyword, NoData)>>
                     /\ pc' = "tab_eda"
                     /\ UNCHANGED exc
                ELSE /\ display' = Append(display, chart)
                     /\ pc' = "crashed"
                     /\ exc' = [type |-> p.exc, at |-> "tab_trend"]
                     /\ UNCHANGED pivot_trend
       ELSE /\ display' = Append(display, Event("warning", "trend", NoKeyword, NoData))
            /\ pc' = "tab_eda"
            /\ UNCHANGED <<pivot_trend, exc>>
    /\ UNCHANGED <<CLIENT_ID, CLIENT_SECRET, source_absent, keyword_input, keywords, i,
                   requests, response, last_status, trend_df, blog_dfs, shop_dfs,
                   all_shop_data, combined_shop, tfidf_calls>>

\* lines 129-144
TabEda ==
    /\ pc = "tab_eda"
    /\ LET r == EdaLoop(keywords, [dfs |-> shop_dfs, disp |-> display])
       IN  /\ shop_dfs' = r.dfs
           /\ display' = r.disp
    /\ pc' = "tab_viz"
    /\ UNCHANGED <<CLIENT_ID, CLIENT_SECRET, source_absent, keyword_input, keywords, i,
                   requests, response, last_status, trend_df, blog_dfs, all_shop_data,
                   combined_shop, pivot_trend, tfidf_calls, exc>>

\* lines 147-190
TabViz ==
    /\ pc = "tab_viz"
    /\ LET data == CollectShop(shop_dfs)
       IN  /\ all_shop_data' = data
           /\ IF data # <<>>
              THEN LET t == TfidfLoop(keywords, blog_dfs,
                                [calls |-> <<>>,
                                 disp |-> display \o
                                    <<Event("chart", "price_histogram", NoKeyword, NoData),
                                      Event("chart", "average_price", NoKeyword, NoData)>>,
                                 exc |-> "none"])
                   IN  /\ combined_shop' = concat(data)
                       /\ tfidf_calls' = t.calls
                       /\ IF t.exc = "none"
                          THEN /\ display' = Append(t.disp,
                                      Event("chart", "mall_box", NoKeyword, NoData))
                               /\ pc' = "tab_raw"
                               /\ UNCHANGED exc
                          ELSE /\ display' = t.disp
                               /\ pc' = "crashed"
                               /\ exc' = [type |-> t.exc, at |-> "tab_viz"]
              ELSE /\ pc' = "tab_raw"
                   /\ UNCHANGED <<combined_shop, tfidf_calls, display, exc>>
    /\ UNCHANGED <<CLIENT_ID, CLIENT_SECRET, source_absent, keyword_input, keywords, i,
                   requests, response, last_status, trend_df, blog_dfs, shop_dfs,
                   pivot_trend>>

\* lines 193-207
TabRaw ==
    /\ pc = "tab_raw"
    /\ IF all_shop_data # <<>> /\ ~cut(combined_shop).ok
       THEN /\ pc' = "crashed"
            /\ exc' = [type |-> cut(combined_shop).exc, at |-> "tab_raw"]
            /\ UNCHANGED <<combined_shop, display>>
       ELSE /\ combined_shop' =
                  IF all_shop_data # <<>> THEN cut(combined_shop).value ELSE combined_shop
            /\ display' = display
                  \o (IF all_shop_data # <<>>
                      THEN <<Event("dataframe", "price_summary", NoKeyword, NoData)>>
                      ELSE <<>>)
                  \o RawLoop(keywords, shop_dfs, blog_dfs)
            /\ pc' = "done"
            /\ UNCHANGED exc
    /\ UNCHANGED <<CLIENT_ID, CLIENT_SECRET, source_absent, keyword_input, keywords, i,
                   requests, response, last_status, trend_df, blog_dfs, shop_dfs,
                   all_shop_data, pivot_trend, tfidf_calls>>

Next ==
    \/ LoadCredentials
    \/ Sidebar
    \/ CredentialGate
    \/ Button
    \/ SendTrend
    \/ HandleTrend
    \/ SendSearch("blog")
    \/ HandleSearch("blog")
    \/ SendSearch("shop")
    \/ HandleSearch("shop")
    \/ TabTrend
    \/ TabEda
    \/ TabViz
    \/ TabRaw

Spec == Init /\ [][Next]_vars

---------------------------------------------------------------------------
(* Vocabulary of the properties *)

NoRows(df) == Len(df) = 0
Shown(kind, what) ==
    \E n \in DOMAIN display : display[n].kind = kind /\ display[n].what = what
ShownFor(kind, what, kw) ==
    \E n \in DOMAIN display :
        display[n].kind = kind /\ display[n].what = what /\ display[n].kw = kw

CrashedAt(places) == pc = "crashed" /\ exc.at \in places
\* the tab has run to its end
AfterTabTrend == pc \in {"tab_eda", "tab_viz", "tab_raw", "done"} \/ CrashedAt({"tab_viz", "tab_raw"})
AfterTabEda == pc \in {"tab_viz", "tab_raw", "done"} \/ CrashedAt({"tab_viz", "tab_raw"})
AfterTabViz == pc \in {"tab_raw", "done"} \/ CrashedAt({"tab_raw"})
\* every API call of the run has returned
Collected == pc \in {"tab_trend", "tab_eda", "tab_viz", "tab_raw", "done"}
                \/ CrashedAt({"tab_trend", "tab_viz", "tab_raw"})

ShopOf(kw) == DictGet(shop_dfs, kw, EmptyDataFrame)
BlogOf(kw) == DictGet(blog_dfs, kw, EmptyDataFrame)
KeywordSet == {keywords[n] : n \in DOMAIN keywords}

\* the first occurrence of each element, in order
RECURSIVE Dedup(_, _)
Dedup(s, seen) ==
    IF s = <<>> THEN <<>>
    ELSE IF Head(s) \in seen THEN Dedup(Tail(s), seen)
    ELSE <<Head(s)>> \o Dedup(Tail(s), seen \cup {Head(s)})

RECURSIVE SumRows(_)
SumRows(d) == IF d = <<>> THEN 0 ELSE Len(Head(d)[2]) + SumRows(Tail(d))

---------------------------------------------------------------------------
(* C1 *)

\* C1: once the credentials are resolved, if either credential is absent (no
\* source supplies it, or the resolved id or secret is None or empty) the run
\* issues no HTTP request, never reaches the trigger button, raises nothing, and
\* when it has stopped the credential error is what the page shows.
C1_NoRequestWithoutCredentials ==
    (pc # "start" /\ (source_absent \/ ~Truthy(CLIENT_ID) \/ ~Truthy(CLIENT_SECRET)))
        => /\ requests = <<>>
           /\ pc \in {"sidebar", "gate", "stopped"}
           /\ exc = NoException
           /\ pc = "stopped" => Shown("error", "credentials")

C1_Witness ==
    /\ pc = "stopped"
    /\ source_absent
    /\ requests = <<>>
    /\ Shown("error", "credentials")

---------------------------------------------------------------------------
(* C2 *)

\* C2: handling a response whose status is not a success status leaves an empty
\* table as the call's result (the trend table, or the keyword's entry of the
\* blog or shop map) and raises nothing, whatever the body carries.
C2_FailureStatusGivesEmpty ==
    [][(pc \in {"trend_response", "blog_response", "shop_response"}
            /\ response.status \notin 200..299)
        => /\ pc' # "crashed"
           /\ exc' = NoException
           /\ pc = "trend_response" => NoRows(trend_df')
           /\ pc = "blog_response" =>
                 DictHas(blog_dfs', keywords[i]) /\ NoRows(DictGet(blog_dfs', keywords[i], <<None>>))
           /\ pc = "shop_response" =>
                 DictHas(shop_dfs', keywords[i]) /\ NoRows(DictGet(shop_dfs', keywords[i], <<None>>))
      ]_vars

C2_Witness ==
    /\ pc = "tab_trend"
    /\ last_status = 500
    /\ keywords # <<>>
    /\ DictHas(shop_dfs, keywords[Len(keywords)])
    /\ NoRows(ShopOf(keywords[Len(keywords)]))
    /\ exc = NoException

---------------------------------------------------------------------------
(* C3 *)

\* C3: a malformed payload (success status, body not JSON or without its
\* 'results'/'items') never ends the run: no API call raises into the script.
C3_MalformedPayloadDoesNotAbort ==
    ~CrashedAt({"fetch_shopping_trend", "fetch_search_results"})

---------------------------------------------------------------------------
(* C4 *)

ExpectedRequests(kws) ==
    <<TrendRequest(kws)>>
        \o [n \in DOMAIN kws |-> SearchRequest("blog", kws[n])]
        \o [n \in DOMAIN kws |-> SearchRequest("shop", kws[n])]

\* C4: no request is issued twice in a run, none is issued before the trigger
\* fires, and a triggered run that has ended, however its calls went, has issued
\* the trend request, then one blog request per keyword, then one shop request
\* per keyword.
C4_OneRequestPerEndpointAndKeyword ==
    /\ \A m, n \in DOMAIN requests : m # n => requests[m] # requests[n]
    /\ pc \in {"start", "sidebar", "gate", "stopped", "button", "idle"} => requests = <<>>
    /\ (pc \in {"done", "crashed"} \/ Collected) => requests = ExpectedRequests(keywords)

---------------------------------------------------------------------------
(* C5 *)

\* C5: once the data is collected, the keys of blog_dfs and of shop_dfs are the
\* trimmed, non-empty keywords of the input de-duplicated by first occurrence, in
\* input order, and the keyword list the later steps iterate is that same list.
C5_KeysAreDedupedKeywords ==
    Collected =>
        LET D == Dedup(parse_keywords(keyword_input), {})
        IN  /\ DictKeys(blog_dfs) = D
            /\ DictKeys(shop_dfs) = D
            /\ keywords = D

---------------------------------------------------------------------------
(* C6 *)

\* C6 as claimed: every step that receives an empty result is skipped with a
\* visible warning for it.
C6_EveryEmptyStepWarns ==
    /\ (AfterTabTrend /\ NoRows(trend_df)) => Shown("warning", "trend")
    /\ AfterTabEda =>
          \A kw \in KeywordSet : NoRows(ShopOf(kw)) => ShownFor("warning", "shop", kw)
    /\ (AfterTabViz /\ all_shop_data = <<>>) => Shown("warning", "combined_shop")
    /\ (AfterTabViz /\ all_shop_data # <<>>) =>
          \A kw \in KeywordSet : NoRows(BlogOf(kw)) => ShownFor("warning", "blog", kw)

\* C6 as amended: a step that receives an empty result is skipped and does not
\* raise; the empty trend table alone is answered with a warning, and a run whose
\* calls all returned empty goes through the four tabs without an exception.
C6_EmptyStepsSkipped ==
    /\ (AfterTabTrend /\ NoRows(trend_df)) =>
          /\ Shown("warning", "trend")
          /\ ~Shown("chart", "trend")
          /\ ~Shown("dataframe", "pivot_trend")
          /\ ~Shown("dataframe", "trend_describe")
          /\ pivot_trend = <<>>
    /\ CrashedAt({"tab_trend"}) => ~NoRows(trend_df)
    /\ AfterTabEda =>
          \A kw \in KeywordSet : NoRows(ShopOf(kw)) =>
              /\ ~ShownFor("dataframe", "price_describe", kw)
              /\ ~ShownFor("table", "top_malls", kw)
    /\ (AfterTabViz \/ CrashedAt({"tab_viz"})) =>
          /\ (\A kw \in KeywordSet : NoRows(ShopOf(kw))) =>
                /\ all_shop_data = <<>>
                /\ NoRows(combined_shop)
                /\ tfidf_calls = <<>>
                /\ ~Shown("chart", "price_histogram")
                /\ ~Shown("chart", "average_price")
                /\ ~Shown("chart", "mall_box")
                /\ ~Shown("dataframe", "price_summary")
                /\ ~CrashedAt({"tab_viz", "tab_raw"})
          /\ \A kw \in KeywordSet : NoRows(BlogOf(kw)) =>
                /\ ~ShownFor("chart", "tfidf", kw)
                /\ \A n \in DOMAIN tfidf_calls : tfidf_calls[n].keyword # kw
    /\ \A n \in DOMAIN display : display[n].kind = "warning" => display[n].what = "trend"
    /\ (Collected /\ NoRows(trend_df)
            /\ \A kw \in KeywordSet : NoRows(ShopOf(kw)) /\ NoRows(BlogOf(kw)))
        => exc = NoException

C6_Witness ==
    /\ pc = "done"
    /\ keywords # <<>>
    /\ NoRows(trend_df)
    /\ \A kw \in KeywordSet : NoRows(ShopOf(kw)) /\ NoRows(BlogOf(kw))
    /\ Shown("warning", "trend")
    /\ exc = NoException

---------------------------------------------------------------------------
(* C7 *)

\* C7: every shop table the raw-data tab shows holds the records as
\* fetch_search_results returned them, price strings included.
C7_RawTabShowsFetchedRecords ==
    \A n \in DOMAIN display :
        (display[n].kind = "dataframe" /\ display[n].what = "shop") =>
            \A k \in DOMAIN display[n].data : display[n].data[k] \in ShopRecords

---------------------------------------------------------------------------
(* C8 *)

CombinedRowsOf(kw) == SelectSeq(combined_shop, LAMBDA r : r.keyword = kw)

\* C8: once the combined shop view is built, its row count is the sum of the row
\* counts of the per-keyword shop tables, every row carries the keyword of one
\* of them, and the rows tagged with a keyword are that keyword's rows in order,
\* same mall, price numeric or NaN (a row with NaN price is kept); a keyword
\* with an empty table has no row, and building the view raises nothing.
C8_CombinedIsConcatenation ==
    (AfterTabViz \/ CrashedAt({"tab_viz"})) =>
        /\ Len(combined_shop) = SumRows(shop_dfs)
        /\ \A n \in DOMAIN combined_shop : DictHas(shop_dfs, combined_shop[n].keyword)
        /\ \A m \in DOMAIN shop_dfs :
              LET kw == shop_dfs[m][1]
                  src == shop_dfs[m][2]
                  rows == CombinedRowsOf(kw)
              IN  /\ Len(rows) = Len(src)
                  /\ \A n \in DOMAIN rows :
                        /\ rows[n].mallName = src[n].mallName
                        /\ rows[n].lprice.t \in {"num", "nan"}
                        /\ src[n].lprice.t \in {"num", "nan"} => rows[n].lprice = src[n].lprice
        /\ CrashedAt({"tab_viz"}) => tfidf_calls # <<>>

C8_Witness ==
    /\ pc = "done"
    /\ Len(combined_shop) = 2
    /\ combined_shop[1].keyword # combined_shop[2].keyword
    /\ \E n \in DOMAIN combined_shop : combined_shop[n].lprice.t = "nan"
    /\ \E kw \in KeywordSet : NoRows(BlogOf(kw))

---------------------------------------------------------------------------
(* C9 *)

Distinct(s) == \A m, n \in DOMAIN s : m # n => s[m] # s[n]

WellFormedTrend ==
    /\ pc = "trend_response"
    /\ response.status = 200
    /\ response.body.kind = "json"
    /\ "results" \in DOMAIN response.body.obj

---------------------------------------------------------------------------
(* C10 *)

\* C10: in a triggered run that goes through its tabs, the term extractor has run
\* exactly once for every keyword that has blog documents.
C10_OneExtractionPerKeyword ==
    pc = "done" =>
        \A kw \in KeywordSet : ~NoRows(BlogOf(kw)) =>
            Cardinality({n \in DOMAIN tfidf_calls : tfidf_calls[n].keyword = kw}) = 1

====
